---- MODULE Spec2Model ----
(***************************************************************************)
(* Model of the quiz feature of GES Annex (src/unnamed/part_000): the      *)
(* Quizzes component (quiz-taking state machine), the browser interval     *)
(* timers it creates, the identity context it reads and the Content Store  *)
(* collection its results are written to.                                  *)
(*                                                                         *)
(* React semantics that the model keeps:                                   *)
(*  - an event handler runs with the state of the render it was created in *)
(*    (for a click: the latest render); state setters take effect in the   *)
(*    next render, so a handler that calls another handler passes it the   *)
(*    values of its own render, not the values it has just set;            *)
(*  - the callback given to setInterval keeps the closure of the render in *)
(*    which startQuiz ran (the field submit of an interval);                    *)
(*  - unmounting the component discards its state, a later mount starts    *)
(*    from the useState initial values; browser intervals live on until    *)
(*    clearInterval is called with their id.                               *)
(***************************************************************************)
EXTENDS Integers, Sequences, FiniteSets, TLC

\* ---------------------------------------------------------------- bounds
MaxQuizzes == 2      \* quizzes in the catalogue: quiz q has q questions
MaxStarts  == 2      \* setInterval calls (authenticated starts) in a run
MaxMounts  == 2      \* instances of the Quizzes component in a run
MaxDraftQuestions == 2   \* questions in a draft of the authoring form
MaxSaves   == 1      \* addDoc calls of saveQuiz in a run
MaxRows    == 3      \* documents per quiz in public/data/quizSubmissions

\* ------------------------------------------------------------- constants
NULL       == "null"          \* JS null for text values and for user
NoQuiz     == 0               \* selectedQuiz === null
NoInterval == 0               \* timerInterval === null (falsy)

Options  == <<"A", "B", "C", "D">>
Subjects == {"s1"}
\* user.email: the address of a subject with an account, null for any other
\* user object (an anonymous session has none).
UserEmail(u) == IF u = "s1" THEN "s1@example.org" ELSE NULL

\* Collections of the Content Store, by their path below artifacts/{appId}.
UserResults(uid) == <<"users", uid, "quizResults">>
QuizSubmissions  == <<"public", "data", "quizSubmissions">>

\* The quiz documents of the Content Store: quiz q has q questions, a time
\* budget of q + 1 seconds and, for question i (0-based), one of its four
\* options as correctAnswer.  Quiz 1 is the one-question quiz of the spec's
\* example (options A..D, correctAnswer "B").
QuizIds           == 1..MaxQuizzes
NumQuestions(q)   == q
TimerSeconds(q)   == q + 1
CorrectAnswer(q, i) == Options[((q + i) % 4) + 1]
QuizTitle(q)      == <<"Quiz", q>>
\* Whether option a is the right answer to question i (0-based) of quiz q,
\* by the quiz document alone.
IsCorrect(q, i, a) == \E k \in 1..Len(Options) : a = Options[k] /\ k = ((q + i) % 4) + 1

VARIABLES
    \* App
    page,                  \* currentPage: "quizzes" or "other"
    inst,                  \* which instance of Quizzes is (or was last) mounted
    \* FirebaseProvider
    user, userId,
    \* Quizzes component state (useState)
    quizzes, selectedQuiz, currentQuestionIndex, selectedAnswer, score,
    showResults, quizTimer, timeRemaining, timerInterval, showAuthModal,
    \* browser and backend
    intervals,             \* active setInterval timers: [id, inst, submit]
    nextId,                \* next id setInterval returns
    pending,               \* addDoc calls not yet settled
    quizResults,           \* documents of users/{userId}/quizResults
    \* history (not read by any action's guard or effect on program state)
    lastOp, advances, correct, attemptWrites, submits,
    \* quiz-list listener, admin gate, QuizCreationForm and the collection
    \* public/data/quizzes: one record, see Authoring
    authoring,
    \* QuizResultsTable: its state and its listener, one record, see Viewer
    viewer

compVars == <<quizzes, selectedQuiz, currentQuestionIndex, selectedAnswer, score,
              showResults, quizTimer, timeRemaining, timerInterval, showAuthModal>>
histVars == <<advances, correct, attemptWrites, submits>>
vars == <<page, inst, user, userId, compVars, intervals, nextId, pending,
          quizResults, lastOp, histVars, authoring, viewer>>

\* --------------------------------------------------------- authoring form
DefaultTimerSeconds == 60
AdminSecret == "gesannexadmin"
BlankQuestion == [questionText |-> "", options |-> <<"", "", "", "">>,
                  correctAnswer |-> ""]

InitialForm ==
    [quizTitle |-> "", quizTimerSeconds |-> DefaultTimerSeconds,
     quizQuestions |-> <<BlankQuestion>>, loading |-> FALSE, message |-> ""]

InitialAuthoring ==
    [quizSub |-> "active", showAdminPanel |-> FALSE, adminPassword |-> "",
     adminPasswordError |-> "", showQuizCreationModal |-> FALSE,
     form |-> InitialForm, savePending |-> <<>>, savedQuizzes |-> <<>>,
     nextDoc |-> 1, secretPassed |-> FALSE]

\* authoring is kept as the empty sequence while the whole record is in its
\* initial state, and as the one-element sequence of the record otherwise;
\* Authoring is the record, Pack the way back.
Authoring == IF authoring = <<>> THEN InitialAuthoring ELSE authoring[1]
Pack(a) == IF a = InitialAuthoring THEN <<>> ELSE <<a>>

\* The fields of Authoring.
\* Quizzes: the quiz-list listener ("active", or "failed" after its error
\* callback) and the useState of the admin gate.
quizSub               == Authoring.quizSub
showAdminPanel        == Authoring.showAdminPanel
adminPassword         == Authoring.adminPassword
adminPasswordError    == Authoring.adminPasswordError
showQuizCreationModal == Authoring.showQuizCreationModal
\* QuizCreationForm: its useState; the initial values while none is mounted.
quizTitle             == Authoring.form.quizTitle
quizTimerSeconds      == Authoring.form.quizTimerSeconds
quizQuestions         == Authoring.form.quizQuestions
loading               == Authoring.form.loading
message               == Authoring.form.message
\* Collection public/data/quizzes: addDoc calls of saveQuiz not yet settled
\* ([doc, live]: live while the form that made the call is mounted), the
\* documents added, and the number of the next one.
savePending           == Authoring.savePending
savedQuizzes          == Authoring.savedQuizzes
nextDoc               == Authoring.nextDoc
\* History: the subject now in the identity context has had a password
\* accepted by handleAdminLogin.
secretPassed          == Authoring.secretPassed

\* The continuations of these addDoc calls belong to a form no longer mounted.
Unmounted(calls) == [i \in DOMAIN calls |-> [calls[i] EXCEPT !.live = FALSE]]

\* QuizCreationForm is declared inside the body of Quizzes, so every render of
\* Quizzes yields a new component type: React unmounts the mounted form and
\* mounts a fresh one, with the useState initial values.  The continuation
\* of a saveQuiz of the old form then sets state of an unmounted component.
\* (While no form is mounted the form fields hold the initial values and
\* no pending save is live, so this changes nothing.)
Rerender(a) ==
    [a EXCEPT !.form = InitialForm, !.savePending = Unmounted(a.savePending)]

\* ------------------------------------------------------ QuizResultsTable
\* The state of a QuizResultsTable once it is mounted and its effects have
\* run: loadingResults starts true and the second effect, finding no
\* selectedQuizId, sets it false; the first effect has called getDocs.
\* titles is the state of that getDocs call, listener the state of the
\* onSnapshot listener on the results ("none", "active", "failed"), snapshot
\* the rows the listener last delivered, in the order it delivered them.
MountedViewer ==
    [quizResults |-> <<>>, loadingResults |-> FALSE, selectedQuizId |-> NoQuiz,
     availableQuizTitles |-> <<>>, titles |-> "pending", listener |-> "none",
     snapshot |-> <<>>]

\* viewer is kept as the empty sequence while the record is MountedViewer, as
\* authoring is.
Viewer == IF viewer = <<>> THEN MountedViewer ELSE viewer[1]
PackViewer(v) == IF v = MountedViewer THEN <<>> ELSE <<v>>

\* QuizResultsTable, like QuizCreationForm, is declared inside the body of
\* Quizzes: every render of Quizzes unmounts it (its listener is removed
\* by the effect's cleanup) and mounts a fresh one.  The same value stands
\* for the table while Quizzes is not mounted; its steps need the page.
RemountViewer == viewer' = PackViewer(MountedViewer)

\* A step of the quiz-taking part of Quizzes: the component renders again.
AttemptRender ==
    /\ authoring' = IF authoring = <<>> THEN <<>> ELSE Pack(Rerender(Authoring))
    /\ RemountViewer

\* ------------------------------------------------------------- helpers
clearInterval(ivs, id) == {t \in ivs : t.id # id}

\* The values a handler created in the current render closes over.
Closure == [timerInterval |-> timerInterval, selectedQuiz |-> selectedQuiz,
            user |-> user, userId |-> userId, score |-> score,
            quizTimer |-> quizTimer, timeRemaining |-> timeRemaining]

\* Mutant of QuizResult: timeTaken is the time left, not the time used.
QuizResultTimeLeft(c) ==
    [collection |-> UserResults(c.userId),
     quizId |-> c.selectedQuiz, quizTitle |-> QuizTitle(c.selectedQuiz),
     studentId |-> c.userId,
     studentEmail |-> IF UserEmail(c.user) # NULL THEN UserEmail(c.user)
                                                   ELSE "anonymous",
     score |-> c.score,
     totalQuestions |-> NumQuestions(c.selectedQuiz),
     timeTaken |-> c.timeRemaining]

\* The document handleSubmitQuiz passes to addDoc, from the closure c, and
\* the collection it is added to (completedAt left out).
QuizResult(c) ==
    [collection |-> UserResults(c.userId),
     quizId |-> c.selectedQuiz, quizTitle |-> QuizTitle(c.selectedQuiz),
     studentId |-> c.userId,
     studentEmail |-> IF UserEmail(c.user) # NULL THEN UserEmail(c.user)
                                                   ELSE "anonymous",
     score |-> c.score,
     totalQuestions |-> NumQuestions(c.selectedQuiz),
     timeTaken |-> c.quizTimer - c.timeRemaining]

\* if (user && db && selectedQuiz) addDoc(...): the documents a call of
\* handleSubmitQuiz with closure c writes.
SubmitWrites(c) ==
    IF c.user # NULL /\ c.selectedQuiz # NoQuiz THEN <<QuizResult(c)>> ELSE <<>>

\* What a handleSubmitQuiz created in the current render does when it is
\* called, now or later: the interval id it clears and the documents it
\* writes.  Both depend on the closure alone.
Submit == [clear |-> Closure.timerInterval, writes |-> SubmitWrites(Closure)]

\* Mutant of SubmitIntervals: handleSubmitQuiz forgets to stop the countdown.
SubmitIntervalsNoClear(h, ivs) == ivs

\* handleSubmitQuiz, line 659: if (timerInterval) clearInterval(timerInterval)
SubmitIntervals(h, ivs) ==
    IF h.clear # NoInterval THEN clearInterval(ivs, h.clear) ELSE ivs

\* handleSubmitQuiz h (a value of Submit) run in the mounted component, the
\* timers being ivs when it starts.  addDoc is called before the first await,
\* so the write is issued within the handler; its outcome arrives later.
handleSubmitQuiz(h, ivs) ==
    /\ intervals' = SubmitIntervals(h, ivs)
    /\ showResults' = TRUE
    /\ pending' = pending \o h.writes
    /\ attemptWrites' = attemptWrites + Len(h.writes)
    /\ submits' = submits + 1

\* Mutant of QuestionViewShown: the question view stays up beside the results.
QuestionViewAlways == page = "quizzes" /\ selectedQuiz # NoQuiz

\* The question view (answer buttons, Next/Submit button) is rendered.
QuestionViewShown == page = "quizzes" /\ selectedQuiz # NoQuiz /\ ~showResults
\* The quiz list (Start Quiz buttons) is rendered.
QuizListShown == page = "quizzes" /\ selectedQuiz = NoQuiz

\* ------------------------------------------------------------- Init
Init ==
    /\ page = "quizzes" /\ inst = 1
    /\ \/ user \in Subjects /\ userId = user
       \/ user = NULL /\ userId = "uuid"
    /\ quizzes = {} /\ selectedQuiz = NoQuiz /\ currentQuestionIndex = 0
    /\ selectedAnswer = NULL /\ score = 0 /\ showResults = FALSE
    /\ quizTimer = 0 /\ timeRemaining = 0 /\ timerInterval = NoInterval
    /\ showAuthModal = FALSE
    /\ intervals = {} /\ nextId = 1 /\ pending = <<>> /\ quizResults = <<>>
    /\ lastOp = "init" /\ advances = 0 /\ correct = 0 /\ attemptWrites = 0 /\ submits = 0
    /\ authoring = Pack(InitialAuthoring)
    /\ viewer = PackViewer(MountedViewer)

\* ------------------------------------------------------------- actions
\* Documents of public/data/quizzes as the client sees them: the stored ones,
\* the ones saveQuiz added, and its local writes not yet acknowledged.
StoredQuizIds ==
    QuizIds \cup {savedQuizzes[i].id : i \in DOMAIN savedQuizzes}
            \cup {savePending[i].doc.id : i \in DOMAIN savePending}

onQuizzesSnapshot ==
    /\ page = "quizzes"
    /\ quizSub = "active"
    /\ quizzes' = StoredQuizIds
    /\ lastOp' = "other"
    /\ authoring' = Pack(Rerender(Authoring))
    /\ RemountViewer
    /\ UNCHANGED <<page, inst, user, userId, selectedQuiz, currentQuestionIndex,
                   selectedAnswer, score, showResults, quizTimer, timeRemaining,
                   timerInterval, showAuthModal, intervals, nextId, pending,
                   quizResults, histVars>>

\* Mutant of startQuiz: the check of user is missing.
startQuizNoAuthCheck(q) ==
    /\ AttemptRender
    /\ QuizListShown /\ q \in quizzes
    /\ IF FALSE
       THEN /\ showAuthModal' = TRUE
            /\ lastOp' = "startUnauth"
            /\ UNCHANGED <<selectedQuiz, currentQuestionIndex, selectedAnswer, score,
                           showResults, quizTimer, timeRemaining, timerInterval,
                           intervals, nextId, histVars>>
       ELSE /\ nextId <= MaxStarts
            /\ selectedQuiz' = q
            /\ currentQuestionIndex' = 0
            /\ selectedAnswer' = NULL
            /\ score' = 0
            /\ showResults' = FALSE
            /\ timeRemaining' = TimerSeconds(q)
            /\ quizTimer' = TimerSeconds(q)
            /\ intervals' = (IF timerInterval # NoInterval
                             THEN clearInterval(intervals, timerInterval)
                             ELSE intervals)
                            \cup {[id |-> nextId, inst |-> inst, submit |-> Submit]}
            /\ timerInterval' = nextId
            /\ nextId' = nextId + 1
            /\ lastOp' = "start"
            /\ advances' = 0 /\ correct' = 0 /\ attemptWrites' = 0 /\ submits' = 0
            /\ UNCHANGED showAuthModal
    /\ UNCHANGED <<page, inst, user, userId, quizzes, pending, quizResults>>

\* Mutant of startQuiz: the score of the previous attempt is kept.
startQuizKeepsScore(q) ==
    /\ AttemptRender
    /\ QuizListShown /\ q \in quizzes
    /\ IF user = NULL
       THEN /\ showAuthModal' = TRUE
            /\ lastOp' = "startUnauth"
            /\ UNCHANGED <<selectedQuiz, currentQuestionIndex, selectedAnswer, score,
                           showResults, quizTimer, timeRemaining, timerInterval,
                           intervals, nextId, histVars>>
       ELSE /\ nextId <= MaxStarts
            /\ selectedQuiz' = q
            /\ currentQuestionIndex' = 0
            /\ selectedAnswer' = NULL
            /\ score' = score
            /\ showResults' = FALSE
            /\ timeRemaining' = TimerSeconds(q)
            /\ quizTimer' = TimerSeconds(q)
            /\ intervals' = (IF timerInterval # NoInterval
                             THEN clearInterval(intervals, timerInterval)
                             ELSE intervals)
                            \cup {[id |-> nextId, inst |-> inst, submit |-> Submit]}
            /\ timerInterval' = nextId
            /\ nextId' = nextId + 1
            /\ lastOp' = "start"
            /\ advances' = 0 /\ correct' = 0 /\ attemptWrites' = 0 /\ submits' = 0
            /\ UNCHANGED showAuthModal
    /\ UNCHANGED <<page, inst, user, userId, quizzes, pending, quizResults>>

startQuiz(q) ==
    /\ AttemptRender
    /\ QuizListShown /\ q \in quizzes
    /\ IF user = NULL
       THEN /\ showAuthModal' = TRUE
            /\ lastOp' = "startUnauth"
            /\ UNCHANGED <<selectedQuiz, currentQuestionIndex, selectedAnswer, score,
                           showResults, quizTimer, timeRemaining, timerInterval,
                           intervals, nextId, histVars>>
       ELSE /\ nextId <= MaxStarts
            /\ selectedQuiz' = q
            /\ currentQuestionIndex' = 0
            /\ selectedAnswer' = NULL
            /\ score' = 0
            /\ showResults' = FALSE
            /\ timeRemaining' = TimerSeconds(q)
            /\ quizTimer' = TimerSeconds(q)
            /\ intervals' = (IF timerInterval # NoInterval
                             THEN clearInterval(intervals, timerInterval)
                             ELSE intervals)
                            \cup {[id |-> nextId, inst |-> inst, submit |-> Submit]}
            /\ timerInterval' = nextId
            /\ nextId' = nextId + 1
            /\ lastOp' = "start"
            /\ advances' = 0 /\ correct' = 0 /\ attemptWrites' = 0 /\ submits' = 0
            /\ UNCHANGED showAuthModal
    /\ UNCHANGED <<page, inst, user, userId, quizzes, pending, quizResults>>

handleAnswerSelect(option) ==
    /\ AttemptRender
    /\ QuestionViewShown
    /\ selectedAnswer' = option
    /\ lastOp' = "other"
    /\ UNCHANGED <<page, inst, user, userId, quizzes, selectedQuiz,
                   currentQuestionIndex, score, showResults, quizTimer,
                   timeRemaining, timerInterval, showAuthModal, intervals, nextId,
                   pending, quizResults, histVars>>

\* Mutant of NextScore: every answered question counts.
NextScoreAlways == score + 1

\* setScore((prevScore) => prevScore + 1) when the answer matches
NextScore ==
    IF selectedAnswer = CorrectAnswer(selectedQuiz, currentQuestionIndex)
    THEN score + 1 ELSE score

\* Mutant of handleNextQuestion: the early return on no selection is missing.
handleNextQuestionNoGuard ==
    /\ AttemptRender
    /\ QuestionViewShown
    /\ IF FALSE
       THEN /\ lastOp' = "advanceNoop"
            /\ UNCHANGED <<currentQuestionIndex, selectedAnswer, score, showResults,
                           intervals, pending, histVars>>
       ELSE /\ score' = NextScore
            /\ selectedAnswer' = NULL
            /\ advances' = advances + 1
            /\ correct' = correct + (IF IsCorrect(selectedQuiz, currentQuestionIndex, selectedAnswer) THEN 1 ELSE 0)
            /\ IF currentQuestionIndex < NumQuestions(selectedQuiz) - 1
               THEN /\ currentQuestionIndex' = currentQuestionIndex + 1
                    /\ lastOp' = "other"
                    /\ UNCHANGED <<showResults, intervals, pending, attemptWrites,
                                   submits>>
               ELSE /\ handleSubmitQuiz(Submit, intervals)
                    /\ lastOp' = "advanceSubmit"
                    /\ UNCHANGED currentQuestionIndex
    /\ UNCHANGED <<page, inst, user, userId, quizzes, selectedQuiz, quizTimer,
                   timeRemaining, timerInterval, showAuthModal, nextId, quizResults>>

\* Mutant of handleNextQuestion: the selection is not cleared.
handleNextQuestionKeepsSelection ==
    /\ AttemptRender
    /\ QuestionViewShown
    /\ IF selectedAnswer = NULL
       THEN /\ lastOp' = "advanceNoop"
            /\ UNCHANGED <<currentQuestionIndex, selectedAnswer, score, showResults,
                           intervals, pending, histVars>>
       ELSE /\ score' = NextScore
            /\ selectedAnswer' = selectedAnswer
            /\ advances' = advances + 1
            /\ correct' = correct + (IF IsCorrect(selectedQuiz, currentQuestionIndex, selectedAnswer) THEN 1 ELSE 0)
            /\ IF currentQuestionIndex < NumQuestions(selectedQuiz) - 1
               THEN /\ currentQuestionIndex' = currentQuestionIndex + 1
                    /\ lastOp' = "other"
                    /\ UNCHANGED <<showResults, intervals, pending, attemptWrites,
                                   submits>>
               ELSE /\ handleSubmitQuiz(Submit, intervals)
                    /\ lastOp' = "advanceSubmit"
                    /\ UNCHANGED currentQuestionIndex
    /\ UNCHANGED <<page, inst, user, userId, quizzes, selectedQuiz, quizTimer,
                   timeRemaining, timerInterval, showAuthModal, nextId, quizResults>>

\* Mutant of handleNextQuestion: the last question is not recognised.
handleNextQuestionPastLast ==
    /\ AttemptRender
    /\ QuestionViewShown
    /\ IF selectedAnswer = NULL
       THEN /\ lastOp' = "advanceNoop"
            /\ UNCHANGED <<currentQuestionIndex, selectedAnswer, score, showResults,
                           intervals, pending, histVars>>
       ELSE /\ score' = NextScore
            /\ selectedAnswer' = NULL
            /\ advances' = advances + 1
            /\ correct' = correct + (IF IsCorrect(selectedQuiz, currentQuestionIndex, selectedAnswer) THEN 1 ELSE 0)
            /\ IF currentQuestionIndex < NumQuestions(selectedQuiz)
               THEN /\ currentQuestionIndex' = currentQuestionIndex + 1
                    /\ lastOp' = "other"
                    /\ UNCHANGED <<showResults, intervals, pending, attemptWrites,
                                   submits>>
               ELSE /\ handleSubmitQuiz(Submit, intervals)
                    /\ lastOp' = "advanceSubmit"
                    /\ UNCHANGED currentQuestionIndex
    /\ UNCHANGED <<page, inst, user, userId, quizzes, selectedQuiz, quizTimer,
                   timeRemaining, timerInterval, showAuthModal, nextId, quizResults>>

handleNextQuestion ==
    /\ AttemptRender
    /\ QuestionViewShown
    /\ IF selectedAnswer = NULL
       THEN /\ lastOp' = "advanceNoop"
            /\ UNCHANGED <<currentQuestionIndex, selectedAnswer, score, showResults,
                           intervals, pending, histVars>>
       ELSE /\ score' = NextScore
            /\ selectedAnswer' = NULL
            /\ advances' = advances + 1
            /\ correct' = correct + (IF IsCorrect(selectedQuiz, currentQuestionIndex, selectedAnswer) THEN 1 ELSE 0)
            /\ IF currentQuestionIndex < NumQuestions(selectedQuiz) - 1
               THEN /\ currentQuestionIndex' = currentQuestionIndex + 1
                    /\ lastOp' = "other"
                    /\ UNCHANGED <<showResults, intervals, pending, attemptWrites,
                                   submits>>
               ELSE /\ handleSubmitQuiz(Submit, intervals)
                    /\ lastOp' = "advanceSubmit"
                    /\ UNCHANGED currentQuestionIndex
    /\ UNCHANGED <<page, inst, user, userId, quizzes, selectedQuiz, quizTimer,
                   timeRemaining, timerInterval, showAuthModal, nextId, quizResults>>

\* Mutant of tick: clearInterval(interval) is missing at expiry.
tickKeepsRunning(t) ==
    /\ AttemptRender
    /\ t \in intervals /\ t.inst = inst /\ page = "quizzes"
    /\ IF timeRemaining <= 1
       THEN /\ timeRemaining' = 0
            /\ handleSubmitQuiz(t.submit, intervals)
            /\ lastOp' = "tickExpire"
            /\ UNCHANGED <<advances, correct>>
       ELSE /\ timeRemaining' = timeRemaining - 1
            /\ lastOp' = "other"
            /\ UNCHANGED <<showResults, intervals, pending, histVars>>
    /\ UNCHANGED <<page, inst, user, userId, quizzes, selectedQuiz,
                   currentQuestionIndex, selectedAnswer, score, quizTimer,
                   timerInterval, showAuthModal, nextId, quizResults>>

\* The callback of the interval t fires (once a second while t is active).
\* The owner of t is mounted: the updater of setTimeRemaining runs.
\* Mutant of tick: the expiry test is prevTime <= 0.
tickOffByOne(t) ==
    /\ AttemptRender
    /\ t \in intervals /\ t.inst = inst /\ page = "quizzes"
    /\ IF timeRemaining <= 0
       THEN /\ timeRemaining' = 0
            /\ handleSubmitQuiz(t.submit, clearInterval(intervals, t.id))
            /\ lastOp' = "tickExpire"
            /\ UNCHANGED <<advances, correct>>
       ELSE /\ timeRemaining' = timeRemaining - 1
            /\ lastOp' = "other"
            /\ UNCHANGED <<showResults, intervals, pending, histVars>>
    /\ UNCHANGED <<page, inst, user, userId, quizzes, selectedQuiz,
                   currentQuestionIndex, selectedAnswer, score, quizTimer,
                   timerInterval, showAuthModal, nextId, quizResults>>

\* Mutant of tick: at the last second the countdown stays where it is.
tickStalls(t) ==
    /\ AttemptRender
    /\ t \in intervals /\ t.inst = inst /\ page = "quizzes"
    /\ timeRemaining' = IF timeRemaining <= 1 THEN timeRemaining
                                               ELSE timeRemaining - 1
    /\ lastOp' = "other"
    /\ UNCHANGED <<showResults, intervals, pending, histVars>>
    /\ UNCHANGED <<page, inst, user, userId, quizzes, selectedQuiz,
                   currentQuestionIndex, selectedAnswer, score, quizTimer,
                   timerInterval, showAuthModal, nextId, quizResults>>

tick(t) ==
    /\ AttemptRender
    /\ t \in intervals /\ t.inst = inst /\ page = "quizzes"
    /\ IF timeRemaining <= 1
       THEN /\ timeRemaining' = 0
            /\ handleSubmitQuiz(t.submit, clearInterval(intervals, t.id))
            /\ lastOp' = "tickExpire"
            /\ UNCHANGED <<advances, correct>>
       ELSE /\ timeRemaining' = timeRemaining - 1
            /\ lastOp' = "other"
            /\ UNCHANGED <<showResults, intervals, pending, histVars>>
    /\ UNCHANGED <<page, inst, user, userId, quizzes, selectedQuiz,
                   currentQuestionIndex, selectedAnswer, score, quizTimer,
                   timerInterval, showAuthModal, nextId, quizResults>>

\* The callback of an interval whose component instance has been unmounted
\* fires.  The state update is dropped; whether React still runs the updater
\* (and with it clearInterval and handleSubmitQuiz of the old closure)
\* depends on the React version and on the update queue of the dead fiber,
\* so both outcomes are allowed.
orphanTick(t) ==
    /\ UNCHANGED <<authoring, viewer>>
    /\ t \in intervals /\ (t.inst # inst \/ page # "quizzes")
    /\ \/ /\ intervals' = SubmitIntervals(t.submit, clearInterval(intervals, t.id))
          /\ pending' = pending \o t.submit.writes
          /\ lastOp' = "orphanExpire"
       \/ /\ lastOp' = "other"
          /\ UNCHANGED <<intervals, pending>>
    /\ UNCHANGED <<page, inst, user, userId, compVars, nextId, quizResults, histVars>>

closeQuiz ==
    /\ AttemptRender
    /\ page = "quizzes" /\ selectedQuiz # NoQuiz
    /\ intervals' = (IF timerInterval # NoInterval
                     THEN clearInterval(intervals, timerInterval) ELSE intervals)
    /\ selectedQuiz' = NoQuiz
    /\ showResults' = FALSE
    /\ lastOp' = "close"
    /\ UNCHANGED <<page, inst, user, userId, quizzes, currentQuestionIndex,
                   selectedAnswer, score, quizTimer, timeRemaining, timerInterval,
                   showAuthModal, nextId, pending, quizResults, histVars>>

\* navigate(page) to another page: App.renderPage no longer returns <Quizzes />,
\* the component is unmounted and its state is discarded.  Its only effect
\* cleanup unsubscribes the quiz-list listener; no clearInterval is called.
navigateAway ==
    /\ authoring' = Pack([InitialAuthoring EXCEPT
                        !.savePending = Unmounted(savePending),
                        !.savedQuizzes = savedQuizzes,
                        !.nextDoc = nextDoc,
                        !.secretPassed = secretPassed])
    /\ RemountViewer
    /\ page = "quizzes" /\ inst < MaxMounts
    /\ page' = "other"
    /\ inst' = inst + 1
    /\ quizzes' = {} /\ selectedQuiz' = NoQuiz /\ currentQuestionIndex' = 0
    /\ selectedAnswer' = NULL /\ score' = 0 /\ showResults' = FALSE
    /\ quizTimer' = 0 /\ timeRemaining' = 0 /\ timerInterval' = NoInterval
    /\ showAuthModal' = FALSE
    /\ advances' = 0 /\ correct' = 0 /\ attemptWrites' = 0 /\ submits' = 0
    /\ lastOp' = "unmount"
    /\ UNCHANGED <<user, userId, intervals, nextId, pending, quizResults>>

\* navigate('quizzes'): a new instance of Quizzes is mounted with the
\* useState initial values.
navigateToQuizzes ==
    /\ UNCHANGED <<authoring, viewer>>
    /\ page = "other"
    /\ page' = "quizzes"
    /\ lastOp' = "other"
    /\ UNCHANGED <<inst, user, userId, compVars, intervals, nextId, pending,
                   quizResults, histVars>>

\* Mutant of addDocResolves: the stored document names the quiz that is
\* selected when the write completes.
addDocResolvesCurrentQuiz ==
    /\ UNCHANGED <<authoring, viewer>>
    /\ pending # <<>>
    /\ quizResults' = Append(quizResults,
                             [Head(pending) EXCEPT
                                !.quizId = selectedQuiz,
                                !.quizTitle = QuizTitle(selectedQuiz),
                                !.totalQuestions = NumQuestions(selectedQuiz)])
    /\ pending' = Tail(pending)
    /\ lastOp' = "other"
    /\ UNCHANGED <<page, inst, user, userId, compVars, intervals, nextId, histVars>>

\* The promise of the oldest unsettled addDoc resolves / rejects.
addDocResolves ==
    /\ UNCHANGED <<authoring, viewer>>
    /\ pending # <<>>
    /\ quizResults' = Append(quizResults, Head(pending))
    /\ pending' = Tail(pending)
    /\ lastOp' = "other"
    /\ UNCHANGED <<page, inst, user, userId, compVars, intervals, nextId, histVars>>

\* Mutant of addDocRejects: the failed write is issued again.
addDocRejectsRetries ==
    /\ UNCHANGED <<authoring, viewer>>
    /\ pending # <<>>
    /\ pending' = Append(Tail(pending), Head(pending))
    /\ lastOp' = "other"
    /\ UNCHANGED <<page, inst, user, userId, compVars, intervals, nextId,
                   quizResults, histVars>>

addDocRejects ==
    /\ UNCHANGED <<authoring, viewer>>
    /\ pending # <<>>
    /\ pending' = Tail(pending)
    /\ lastOp' = "other"
    /\ UNCHANGED <<page, inst, user, userId, compVars, intervals, nextId,
                   quizResults, histVars>>

\* Sign-in or sign-up through the Auth modal succeeds: onAuthStateChanged
\* delivers the subject, and Auth's effect closes the modal.
signIn(s) ==
    /\ AttemptRender
    /\ page = "quizzes" /\ showAuthModal /\ user = NULL
    /\ user' = s /\ userId' = s
    /\ showAuthModal' = FALSE
    /\ lastOp' = "other"
    /\ UNCHANGED <<page, inst, quizzes, selectedQuiz, currentQuestionIndex,
                   selectedAnswer, score, showResults, quizTimer, timeRemaining,
                   timerInterval, intervals, nextId, pending, quizResults, histVars>>

closeAuthModal ==
    /\ AttemptRender
    /\ page = "quizzes" /\ showAuthModal
    /\ showAuthModal' = FALSE
    /\ lastOp' = "other"
    /\ UNCHANGED <<page, inst, user, userId, quizzes, selectedQuiz,
                   currentQuestionIndex, selectedAnswer, score, showResults,
                   quizTimer, timeRemaining, timerInterval, intervals, nextId,
                   pending, quizResults, histVars>>

StartQuizStep == \E q \in QuizIds : startQuiz(q)
SelectStep    == \E o \in 1..Len(Options) : handleAnswerSelect(Options[o])
TickStep      == \E t \in intervals : tick(t)
OrphanStep    == \E t \in intervals : orphanTick(t)
SignInStep    == \E s \in Subjects : signIn(s)

Next ==
    \/ onQuizzesSnapshot
    \/ StartQuizStep
    \/ SelectStep
    \/ handleNextQuestion
    \/ TickStep
    \/ OrphanStep
    \/ closeQuiz
    \/ navigateAway
    \/ navigateToQuizzes
    \/ addDocResolves
    \/ addDocRejects
    \/ SignInStep
    \/ closeAuthModal

Spec == Init /\ [][Next]_vars

\* ------------------------------------------------------- the countdown
\* One mounted Quizzes and its attempts.  setInterval calls the callback
\* every second for as long as the interval is active: a countdown of the
\* mounted component that stays active is not passed over for ever.
NextCountdown ==
    \/ onQuizzesSnapshot
    \/ StartQuizStep
    \/ SelectStep
    \/ handleNextQuestion
    \/ TickStep
    \/ closeQuiz
    \/ addDocResolves
    \/ addDocRejects
    \/ SignInStep
    \/ closeAuthModal

SpecCountdown == Init /\ [][NextCountdown]_vars /\ WF_vars(TickStep)

\* ------------------------------------------------- quiz-list listener error
\* What the admin and form handlers leave alone in the quiz-taking part.
AttemptUnchanged ==
    UNCHANGED <<page, inst, user, userId, quizzes, selectedQuiz,
                currentQuestionIndex, selectedAnswer, score, showResults,
                quizTimer, timeRemaining, timerInterval, intervals, nextId,
                pending, quizResults, histVars>>

\* Error callback of the quiz-list onSnapshot: it only logs.  Firestore ends
\* a listener that reports an error, so no snapshot follows.  No state of
\* Quizzes is set, hence no render.
onQuizzesError ==
    /\ page = "quizzes"
    /\ quizSub = "active"
    /\ authoring' = Pack([Authoring EXCEPT !.quizSub = "failed"])
    /\ lastOp' = "other"
    /\ AttemptUnchanged
    /\ UNCHANGED <<showAuthModal, viewer>>

\* ------------------------------------------------------------ admin gate
\* The modals of Quizzes are full-screen overlays: while one is shown the
\* Teacher Admin Panel button beneath it takes no click.
NoModalShown == ~showAuthModal /\ ~showAdminPanel /\ ~showQuizCreationModal

openAdminPanel ==
    /\ QuizListShown
    /\ NoModalShown
    /\ IF user = NULL
         THEN /\ showAuthModal' = TRUE
              /\ authoring' = Pack(Rerender(Authoring))
         ELSE /\ authoring' = Pack([Rerender(Authoring) EXCEPT !.showAdminPanel = TRUE])
              /\ UNCHANGED showAuthModal
    /\ RemountViewer
    /\ lastOp' = "other"
    /\ AttemptUnchanged

setAdminPassword(value) ==
    /\ page = "quizzes" /\ showAdminPanel
    /\ authoring' = Pack([Rerender(Authoring) EXCEPT !.adminPassword = value])
    /\ RemountViewer
    /\ lastOp' = "other"
    /\ AttemptUnchanged
    /\ UNCHANGED showAuthModal

closeAdminPanel ==
    /\ page = "quizzes" /\ showAdminPanel
    /\ authoring' = Pack([Rerender(Authoring) EXCEPT !.showAdminPanel = FALSE,
                                                !.adminPassword = "",
                                                !.adminPasswordError = ""])
    /\ RemountViewer
    /\ lastOp' = "other"
    /\ AttemptUnchanged
    /\ UNCHANGED showAuthModal

\* Mutant of handleAdminLogin: the password is not compared.
handleAdminLoginAnyPassword ==
    /\ page = "quizzes" /\ showAdminPanel
    /\ nextDoc <= MaxSaves
    /\ authoring' = Pack([Rerender(Authoring) EXCEPT
                       !.adminPasswordError = "",
                       !.showAdminPanel = FALSE,
                       !.showQuizCreationModal = TRUE,
                       !.secretPassed = TRUE])
    /\ RemountViewer
    /\ lastOp' = "other"
    /\ AttemptUnchanged
    /\ UNCHANGED showAuthModal

\* The typed password stays in adminPassword after a successful login.
\* The form is opened only while the store of this model has room for one
\* more document (nextDoc <= MaxSaves).
handleAdminLogin ==
    /\ page = "quizzes" /\ showAdminPanel
    /\ IF adminPassword = AdminSecret
         THEN /\ nextDoc <= MaxSaves
              /\ authoring' = Pack([Rerender(Authoring) EXCEPT
                                 !.adminPasswordError = "",
                                 !.showAdminPanel = FALSE,
                                 !.showQuizCreationModal = TRUE,
                                 !.secretPassed = TRUE])
         ELSE authoring' = Pack([Rerender(Authoring) EXCEPT
                              !.adminPasswordError = "Incorrect admin password."])
    /\ RemountViewer
    /\ lastOp' = "other"
    /\ AttemptUnchanged
    /\ UNCHANGED showAuthModal

closeQuizCreationModal ==
    /\ page = "quizzes" /\ showQuizCreationModal
    /\ authoring' = Pack([Rerender(Authoring) EXCEPT !.showQuizCreationModal = FALSE])
    /\ RemountViewer
    /\ lastOp' = "other"
    /\ AttemptUnchanged
    /\ UNCHANGED showAuthModal

\* ------------------------------------------------------ QuizCreationForm
FormShown == page = "quizzes" /\ showQuizCreationModal

\* A step of the form alone: Quizzes does not render.
FormStepFrame ==
    /\ lastOp' = "other"
    /\ AttemptUnchanged
    /\ UNCHANGED <<showAuthModal, viewer>>

\* String.prototype.trim on the strings of this model: " " is the one that
\* consists of white space only.
Trim(str) == IF str = " " THEN "" ELSE str

\* Number(e.target.value) of the timer input: "" converts to 0.
Number(str) == IF str = "60" THEN DefaultTimerSeconds ELSE 0

setQuizTitle(value) ==
    /\ FormShown
    /\ authoring' = Pack([Authoring EXCEPT !.form.quizTitle = value])
    /\ FormStepFrame

setQuizTimerSeconds(value) ==
    /\ FormShown
    /\ authoring' = Pack([Authoring EXCEPT !.form.quizTimerSeconds = Number(value)])
    /\ FormStepFrame

handleQuestionChange(index, field, value) ==
    /\ FormShown
    /\ index \in DOMAIN quizQuestions
    /\ authoring' = Pack([Authoring EXCEPT !.form.quizQuestions[index][field] = value])
    /\ FormStepFrame

handleOptionChange(qIndex, oIndex, value) ==
    /\ FormShown
    /\ qIndex \in DOMAIN quizQuestions
    /\ authoring' = Pack([Authoring EXCEPT
                       !.form.quizQuestions[qIndex].options[oIndex] = value])
    /\ FormStepFrame

addQuestion ==
    /\ FormShown
    /\ Len(quizQuestions) < MaxDraftQuestions
    /\ authoring' = Pack([Authoring EXCEPT
                       !.form.quizQuestions = Append(@, BlankQuestion)])
    /\ FormStepFrame

\* quizQuestions.filter((_, i) => i !== index)
Without(seq, index) ==
    [i \in 1..(Len(seq) - 1) |-> IF i < index THEN seq[i] ELSE seq[i + 1]]

\* Mutant of removeQuestion: the Remove button is rendered for the only
\* question too.
removeQuestionOfAny(index) ==
    /\ FormShown
    /\ index \in DOMAIN quizQuestions
    /\ authoring' = Pack([Authoring EXCEPT !.form.quizQuestions = Without(@, index)])
    /\ lastOp' = "removeQuestion"
    /\ AttemptUnchanged
    /\ UNCHANGED <<showAuthModal, viewer>>

\* The Remove button of a question is rendered only while the draft has more
\* than one question.
removeQuestion(index) ==
    /\ FormShown
    /\ Len(quizQuestions) > 1
    /\ index \in DOMAIN quizQuestions
    /\ authoring' = Pack([Authoring EXCEPT !.form.quizQuestions = Without(@, index)])
    /\ lastOp' = "removeQuestion"
    /\ AttemptUnchanged
    /\ UNCHANGED <<showAuthModal, viewer>>

\* !str.trim()
Blank(str) == Trim(str) = ""

QuestionInvalid(q) ==
    \/ Blank(q.questionText)
    \/ \E o \in DOMAIN q.options : Blank(q.options[o])
    \/ Blank(q.correctAnswer)

\* Mutant of DraftInvalid: the options are not looked at.
DraftInvalidIgnoresOptions(title, timer, questions) ==
    \/ Blank(title)
    \/ timer <= 0
    \/ \E i \in DOMAIN questions :
          Blank(questions[i].questionText) \/ Blank(questions[i].correctAnswer)

DraftInvalid(title, timer, questions) ==
    \/ Blank(title)
    \/ timer <= 0
    \/ \E i \in DOMAIN questions : QuestionInvalid(questions[i])

\* Which branch saveQuiz takes.
SaveOutcome(u, title, timer, questions) ==
    IF u = NULL THEN "You must be logged in to create quizzes."
    ELSE IF DraftInvalid(title, timer, questions)
      THEN "Please fill in all quiz fields and ensure timer is positive."
      ELSE "addDoc"

\* Mutant of QuizDoc: the document is attributed to nobody.
QuizDocUnattributed ==
    [id |-> MaxQuizzes + nextDoc, title |-> quizTitle,
     timerSeconds |-> quizTimerSeconds, questions |-> quizQuestions,
     creatorId |-> NULL]

\* The document saveQuiz hands to addDoc (createdAt left out); the store
\* names it on the client.
QuizDoc ==
    [id |-> MaxQuizzes + nextDoc, title |-> quizTitle,
     timerSeconds |-> quizTimerSeconds, questions |-> quizQuestions,
     creatorId |-> userId]

\* Submit handler of the form; the submit button is disabled while loading.
\* (The browser's own check of the required inputs and of min="10" comes
\* before it and is not modelled: the handler is taken with every draft.)
saveQuiz ==
    /\ FormShown
    /\ ~loading
    /\ LET outcome == SaveOutcome(user, quizTitle, quizTimerSeconds, quizQuestions)
       IN IF outcome = "addDoc"
            THEN /\ nextDoc <= MaxSaves
                 /\ authoring' = Pack([Authoring EXCEPT
                       !.savePending = Append(@, [doc |-> QuizDoc, live |-> TRUE]),
                       !.nextDoc = @ + 1,
                       !.form.loading = TRUE,
                       !.form.message = ""])
                 /\ lastOp' = "other"
            ELSE /\ authoring' = Pack([Authoring EXCEPT !.form.message = outcome,
                                                   !.form.loading = FALSE])
                 /\ lastOp' = "saveRejected"
    /\ AttemptUnchanged
    /\ UNCHANGED <<showAuthModal, viewer>>

\* addDoc of saveQuiz resolves: the rest of the try block runs, closeForm
\* included, which is closeQuizCreationModal and closes whichever form is
\* mounted by then (none, if Quizzes itself is gone).
saveResolves ==
    /\ savePending # <<>>
    /\ authoring' = Pack(
         IF page = "quizzes"
           THEN [Authoring EXCEPT
                   !.savedQuizzes = Append(@, Head(savePending).doc),
                   !.savePending = Unmounted(Tail(@)),
                   !.showQuizCreationModal = FALSE,
                   !.form = InitialForm]
           ELSE [Authoring EXCEPT
                   !.savedQuizzes = Append(@, Head(savePending).doc),
                   !.savePending = Tail(@)])
    /\ lastOp' = "saveResolved"
    /\ IF page = "quizzes" /\ showQuizCreationModal
         THEN RemountViewer
         ELSE UNCHANGED viewer
    /\ AttemptUnchanged
    /\ UNCHANGED showAuthModal

\* addDoc of saveQuiz rejects: the message is shown and the button enabled
\* again, if the form that made the call is still mounted.
saveRejects ==
    /\ savePending # <<>>
    /\ authoring' = Pack(
         IF Head(savePending).live
           THEN [Authoring EXCEPT !.savePending = Tail(@),
                                  !.form.message = "Failed to save quiz",
                                  !.form.loading = FALSE]
           ELSE [Authoring EXCEPT !.savePending = Tail(@)])
    /\ lastOp' = "other"
    /\ AttemptUnchanged
    /\ UNCHANGED <<showAuthModal, viewer>>

\* ---------------------------------------------------- the author's input
AdminPasswords == {"", "letmein", AdminSecret}
Titles == {"", " ", "Algebra"}
TimerTexts == {"", "60"}
QuestionTexts == {" ", "Q"}
\* Answers typed into question i: an option, and for the first question
\* also a text that is none of the options.
Answers(i) == IF i = 1 THEN {"A", "E"} ELSE {"A"}

AdminPasswordStep == \E value \in AdminPasswords : setAdminPassword(value)
TitleStep == \E value \in Titles : setQuizTitle(value)
TimerStep == \E value \in TimerTexts : setQuizTimerSeconds(value)

\* The questions are typed in the order of the form, and a question in the
\* order of its inputs: text, options, answer.
TypedUpTo(i) == \A j \in 1..(i - 1) : ~QuestionInvalid(quizQuestions[j])
QuestionTextStep ==
    \E i \in DOMAIN quizQuestions :
        /\ TypedUpTo(i)
        /\ Blank(quizQuestions[i].questionText)
        /\ \E value \in QuestionTexts :
               handleQuestionChange(i, "questionText", value)
OptionStep ==
    \E i \in DOMAIN quizQuestions : \E o \in 1..Len(Options) :
        /\ TypedUpTo(i)
        /\ ~Blank(quizQuestions[i].questionText)
        /\ \A j \in 1..(o - 1) : quizQuestions[i].options[j] # ""
        /\ quizQuestions[i].options[o] = ""
        /\ handleOptionChange(i, o, Options[o])
\* The third option (options[2] of the source) of the last question, once
\* that question is finished, is cleared again.
OptionClearStep ==
    /\ TypedUpTo(Len(quizQuestions) + 1)
    /\ handleOptionChange(Len(quizQuestions), 3, "")
AnswerStep ==
    \E i \in DOMAIN quizQuestions : \E value \in Answers(i) :
        /\ TypedUpTo(i)
        /\ \A o \in 1..Len(Options) : quizQuestions[i].options[o] # ""
        /\ handleQuestionChange(i, "correctAnswer", value)
RemoveStep == \E i \in DOMAIN quizQuestions : removeQuestion(i)

NextAuthor ==
    \/ onQuizzesSnapshot
    \/ openAdminPanel
    \/ AdminPasswordStep
    \/ handleAdminLogin
    \/ closeAdminPanel
    \/ closeQuizCreationModal
    \/ TitleStep
    \/ TimerStep
    \/ QuestionTextStep
    \/ OptionStep
    \/ OptionClearStep
    \/ AnswerStep
    \/ addQuestion
    \/ RemoveStep
    \/ saveQuiz
    \/ saveResolves
    \/ saveRejects
    \/ SignInStep
    \/ closeAuthModal

SpecAuthor == Init /\ [][NextAuthor]_vars

\* The quiz list and its listener, with the starts, expiries and page
\* changes that go with it.
NextCatalogue ==
    \/ onQuizzesSnapshot
    \/ onQuizzesError
    \/ StartQuizStep
    \/ TickStep
    \/ OrphanStep
    \/ closeQuiz
    \/ navigateAway
    \/ navigateToQuizzes
    \/ SignInStep
    \/ closeAuthModal

SpecCatalogue == Init /\ [][NextCatalogue]_vars

\* --------------------------------------------------------- results viewer
\* The fields of Viewer (quizResults of QuizResultsTable is viewerResults
\* here: quizResults names the collections written by handleSubmitQuiz).
viewerResults       == Viewer.quizResults
loadingResults      == Viewer.loadingResults
selectedQuizId      == Viewer.selectedQuizId
availableQuizTitles == Viewer.availableQuizTitles

\* The catalogue quizzes are documents s1 saved in an earlier session.
CreatorId(q) ==
    IF q \in QuizIds THEN "s1"
    ELSE LET docs == {savedQuizzes[i] : i \in DOMAIN savedQuizzes}
                       \cup {savePending[i].doc : i \in DOMAIN savePending}
         IN (CHOOSE d \in docs : d.id = q).creatorId

\* The elements of a set of numbers in ascending order.
RECURSIVE Ascending(_)
Ascending(S) ==
    IF S = {} THEN <<>>
    ELSE LET least == CHOOSE x \in S : \A y \in S : x <= y
         IN <<least>> \o Ascending(S \ {least})

\* getDocs(query(quizzes, where('creatorId', '==', userId))): the ids of the
\* matching documents, in the order of the document ids.
AuthoredQuizIds(uid) == Ascending({q \in StoredQuizIds : CreatorId(q) = uid})

\* public/data/quizSubmissions is written outside this program: it may hold
\* up to MaxRows documents per catalogue quiz, with scores 0 and 1 in turn.
Submission(q, k) ==
    [id |-> <<q, k>>, collection |-> QuizSubmissions, quizId |-> q,
     score |-> (q + k) % 2]

\* The documents a collection may hold, as {id, ...data} rows.
CollectionDocs(coll) ==
    IF coll = QuizSubmissions
      THEN {Submission(q, k) : q \in QuizIds, k \in 1..MaxRows}
      ELSE {[id |-> <<0, i>>, collection |-> quizResults[i].collection,
             quizId |-> quizResults[i].quizId, score |-> quizResults[i].score] :
              i \in {j \in DOMAIN quizResults : quizResults[j].collection = coll}}

\* The rows of D in the order of their document ids.
RECURSIVE ByDocumentId(_)
ByDocumentId(D) ==
    IF D = {} THEN <<>>
    ELSE LET first == CHOOSE d \in D : \A e \in D : d.id[2] <= e.id[2]
         IN <<first>> \o ByDocumentId(D \ {first})

\* snapshot.docs of query(coll, where('quizId', '==', id)): the collection
\* holds some of its possible documents; a query without orderBy delivers
\* them in the order of the document ids.
Snapshots(coll, id) ==
    {ByDocumentId(D) : D \in SUBSET {d \in CollectionDocs(coll) : d.quizId = id}}

\* Mutant of Insert: a row goes before the rows of equal score.
InsertBeforeEqual(sorted, row) ==
    LET before == {i \in DOMAIN sorted : sorted[i].score > row.score}
        n == Cardinality(before)
    IN SubSeq(sorted, 1, n) \o <<row>> \o SubSeq(sorted, n + 1, Len(sorted))

\* One step of the stable sort with comparator (a, b) => b.score - a.score:
\* the row goes behind the rows that do not compare greater than it.
Insert(sorted, row) ==
    LET before == {i \in DOMAIN sorted : sorted[i].score >= row.score}
        n == Cardinality(before)
    IN SubSeq(sorted, 1, n) \o <<row>> \o SubSeq(sorted, n + 1, Len(sorted))

\* results.sort((a, b) => b.score - a.score); Array.prototype.sort is stable.
RECURSIVE SortByScore(_)
SortByScore(rows) ==
    IF rows = <<>> THEN <<>>
    ELSE Insert(SortByScore(SubSeq(rows, 1, Len(rows) - 1)), rows[Len(rows)])

\* Mutant of ResultsCollection: the viewer reads what handleSubmitQuiz writes.
ResultsCollectionOfUser == UserResults(userId)

\* The collection the results listener queries.
ResultsCollection == QuizSubmissions

\* The second effect of QuizResultsTable after selectedQuizId has become id:
\* the cleanup removes the old listener, loadingResults is set and a
\* listener for id is attached.  quizResults is left as it is.
Subscribed(v, id) ==
    [v EXCEPT !.selectedQuizId = id, !.loadingResults = TRUE,
              !.listener = "active", !.snapshot = <<>>]

\* What the viewer steps leave alone: everything but viewer.
ViewerStepFrame ==
    /\ lastOp' = "other"
    /\ AttemptUnchanged
    /\ UNCHANGED <<showAuthModal, authoring>>

\* getDocs of the first effect resolves.
fetchTitlesResolves ==
    /\ page = "quizzes"
    /\ Viewer.titles = "pending"
    /\ LET titles == AuthoredQuizIds(userId)
           fetched == [Viewer EXCEPT !.availableQuizTitles = titles,
                                     !.titles = "done"]
       IN viewer' = PackViewer(IF Len(titles) > 0
                                 THEN Subscribed(fetched, titles[1])
                                 ELSE fetched)
    /\ ViewerStepFrame

\* getDocs rejects: the catch block only logs.
fetchTitlesRejects ==
    /\ page = "quizzes"
    /\ Viewer.titles = "pending"
    /\ viewer' = PackViewer([Viewer EXCEPT !.titles = "failed"])
    /\ ViewerStepFrame

\* The select is rendered while availableQuizTitles is not empty; onChange
\* comes with an option other than the selected one.
handleQuizSelectChange(id) ==
    /\ page = "quizzes"
    /\ \E i \in DOMAIN availableQuizTitles : availableQuizTitles[i] = id
    /\ id # selectedQuizId
    /\ viewer' = PackViewer(Subscribed(Viewer, id))
    /\ ViewerStepFrame

\* The listener delivers a snapshot.
onResultsSnapshot(rows) ==
    /\ page = "quizzes"
    /\ Viewer.listener = "active"
    /\ viewer' = PackViewer([Viewer EXCEPT !.quizResults = SortByScore(rows),
                                           !.loadingResults = FALSE,
                                           !.snapshot = rows])
    /\ ViewerStepFrame

\* The listener reports an error, which ends it: the callback logs and
\* clears loadingResults.
onResultsError ==
    /\ page = "quizzes"
    /\ Viewer.listener = "active"
    /\ viewer' = PackViewer([Viewer EXCEPT !.listener = "failed",
                                           !.loadingResults = FALSE])
    /\ ViewerStepFrame

SelectQuizStep == \E id \in StoredQuizIds : handleQuizSelectChange(id)
ResultsSnapshotStep ==
    \E rows \in Snapshots(ResultsCollection, selectedQuizId) : onResultsSnapshot(rows)

\* ------------------------------------------------------- identity changes
\* Mutant of sessionEndsAnonymous: the mounted QuizResultsTable stays
\* mounted; its effects run again for the new userId, the first one
\* fetching the titles anew, the second one attaching a listener for the
\* selectedQuizId it still holds.
sessionEndsAnonymousTableStays ==
    /\ user # NULL /\ userId = user /\ user # "anon"
    /\ user' = "anon" /\ userId' = "anon"
    /\ authoring' = Pack([Rerender(Authoring) EXCEPT !.secretPassed = FALSE])
    /\ viewer' = PackViewer([Viewer EXCEPT !.titles = "pending"])
    /\ lastOp' = "other"
    /\ UNCHANGED <<page, inst, compVars, intervals, nextId, pending,
                   quizResults, histVars>>

\* The session of the signed-in subject ends (Logout of the Auth modal, a
\* sign-out in another tab, a revoked account): onAuthStateChanged delivers
\* null and the callback signs in anonymously.  On success the anonymous
\* user becomes user and userId.
sessionEndsAnonymous ==
    /\ user # NULL /\ userId = user /\ user # "anon"
    /\ user' = "anon" /\ userId' = "anon"
    /\ authoring' = Pack([Rerender(Authoring) EXCEPT !.secretPassed = FALSE])
    /\ RemountViewer
    /\ lastOp' = "other"
    /\ UNCHANGED <<page, inst, compVars, intervals, nextId, pending,
                   quizResults, histVars>>

\* The anonymous sign-in fails: the catch block sets userId to a random
\* UUID and leaves user as it was.
sessionEndsAlone ==
    /\ user # NULL /\ userId = user
    /\ userId' = "uuid"
    /\ authoring' = Pack([Rerender(Authoring) EXCEPT !.secretPassed = FALSE])
    /\ RemountViewer
    /\ lastOp' = "other"
    /\ UNCHANGED <<page, inst, user, compVars, intervals, nextId, pending,
                   quizResults, histVars>>

NextViewer ==
    \/ onQuizzesSnapshot
    \/ SignInStep
    \/ closeAuthModal
    \/ openAdminPanel
    \/ AdminPasswordStep
    \/ handleAdminLogin
    \/ closeAdminPanel
    \/ closeQuizCreationModal
    \/ fetchTitlesResolves
    \/ fetchTitlesRejects
    \/ SelectQuizStep
    \/ ResultsSnapshotStep
    \/ onResultsError
    \/ sessionEndsAnonymous
    \/ sessionEndsAlone

SpecViewer == Init /\ [][NextViewer]_vars

\* Attempts and their results beside the results viewer.
NextResults ==
    \/ onQuizzesSnapshot
    \/ SignInStep
    \/ closeAuthModal
    \/ StartQuizStep
    \/ SelectStep
    \/ handleNextQuestion
    \/ closeQuiz
    \/ addDocResolves
    \/ fetchTitlesResolves
    \/ ResultsSnapshotStep
    \/ sessionEndsAnonymous
    \/ sessionEndsAlone

SpecResults == Init /\ [][NextResults]_vars

\* ---------------------------------------------------------------- claims
Last(seq) == seq[Len(seq)]
InAttempt == page = "quizzes" /\ selectedQuiz # NoQuiz
Completed == InAttempt /\ showResults
OwnTimers == {t \in intervals : t.inst = inst /\ page = "quizzes"}

\* C1: when an authenticated subject's attempt completes through advance() on
\* the last question, the persisted QuizResult has score equal to the
\* attempt's final score (the number of correctly answered questions, the last
\* one included) and totalQuestions equal to the number of questions.
C1_PersistedScoreIsFinalScore ==
    (lastOp = "advanceSubmit" /\ user # NULL) =>
        /\ pending # <<>>
        /\ Last(pending).score = score
        /\ Last(pending).score = correct
        /\ Last(pending).totalQuestions = NumQuestions(selectedQuiz)

\* C2: when the countdown reaches 0 during an in-progress attempt of an
\* authenticated subject, the forced submit() writes one QuizResult whose
\* score counts the questions answered correctly before the expiry.
C2_ExpiryWritesResult ==
    (lastOp = "tickExpire" /\ user # NULL) =>
        /\ attemptWrites = 1
        /\ pending # <<>>
        /\ Last(pending).score = correct

\* C3: at most one QuizResult is written to the Content Store per attempt.
C3_AtMostOneWritePerAttempt == attemptWrites <= 1

C3_Witness == lastOp = "close" /\ attemptWrites = 1 /\ submits = 1

\* C4: when timeRemaining reaches 0 during an attempt, the attempt is
\* completed, submit() has run exactly once for it, and no countdown of the
\* component is left that could tick again.
C4_ExpiryCompletesOnce ==
    (InAttempt /\ timeRemaining = 0) =>
        showResults /\ submits = 1 /\ OwnTimers = {}

C4_Witness ==
    /\ lastOp = "tickExpire" /\ timeRemaining = 0 /\ showResults
    /\ NumQuestions(selectedQuiz) = 2 /\ advances = 0

\* C5: after every exit from InProgress (submit, expiry, close, teardown of
\* the component) no countdown timer remains active: every active timer
\* is the current timer of a mounted component whose attempt is in progress.
C5_NoTimerAfterExit ==
    \A t \in intervals :
        /\ page = "quizzes" /\ t.inst = inst
        /\ selectedQuiz # NoQuiz /\ ~showResults
        /\ t.id = timerInterval

\* C6: an attempt on which all N questions were advanced is completed, and
\* its final score is the number of advances whose selected answer was the
\* question's correctAnswer (N when all were right, 0 when none was).
C6_FinalScoreCountsCorrect ==
    (InAttempt /\ advances = NumQuestions(selectedQuiz)) =>
        showResults /\ score = correct

C6_Witness ==
    /\ Completed /\ NumQuestions(selectedQuiz) = 2 /\ advances = 2
    /\ correct = 1 /\ score = 1

\* C7: start(quiz) with no subject signed in selects no quiz, leaves index,
\* score, selection and timeRemaining unchanged, starts no countdown and
\* shows the authentication prompt.
C7_UnauthStartAborts ==
    [][((\E q \in QuizIds : startQuiz(q)) /\ user = NULL) =>
          /\ selectedQuiz' = NoQuiz
          /\ UNCHANGED <<selectedQuiz, currentQuestionIndex, score, selectedAnswer,
                         timeRemaining, showResults, timerInterval, intervals,
                         nextId, pending>>
          /\ showAuthModal']_vars

C7_Witness == lastOp = "startUnauth" /\ showAuthModal /\ selectedQuiz = NoQuiz

\* C8: start(quiz) by an authenticated subject yields index 0, score 0, no
\* selection, not completed, timeRemaining = quiz.timerSeconds and exactly
\* one running countdown of the component, whatever the previous attempt left.
C8_StartResetsAttempt ==
    lastOp = "start" =>
        /\ InAttempt /\ ~showResults
        /\ currentQuestionIndex = 0 /\ score = 0 /\ selectedAnswer = NULL
        /\ timeRemaining = TimerSeconds(selectedQuiz)
        /\ quizTimer = TimerSeconds(selectedQuiz)
        /\ \E t \in intervals : OwnTimers = {t} /\ t.id = timerInterval

\* a second start in the same component, after an attempt that was completed
\* with both answers right and whose result reached the store
C8_Witness ==
    /\ lastOp = "start" /\ inst = 1 /\ timerInterval = 2
    /\ quizResults # <<>> /\ quizResults[1].quizId = 2 /\ quizResults[1].score = 1

\* C9: while the component is mounted, every step taken from a completed
\* attempt either leaves it completed with score, index, timeRemaining and
\* quiz unchanged, or is close(), after which no quiz is selected.
C9_CompletedIsFinal ==
    [][(Completed /\ page' = "quizzes") =>
          \/ /\ Completed'
             /\ UNCHANGED <<score, currentQuestionIndex, timeRemaining, selectedQuiz>>
          \/ closeQuiz /\ selectedQuiz' = NoQuiz]_vars

C9_Witness == lastOp = "close" /\ selectedQuiz = NoQuiz /\ submits = 1

\* C10: advance() with no answer selected changes neither index, score,
\* completion nor timeRemaining and writes nothing, also on the last question.
C10_AdvanceWithoutAnswerIsNoop ==
    [][(handleNextQuestion /\ selectedAnswer = NULL) =>
          UNCHANGED <<currentQuestionIndex, score, showResults, timeRemaining,
                      selectedQuiz, selectedAnswer, intervals, pending,
                      quizResults>>]_vars

C10_Witness ==
    /\ lastOp = "advanceNoop" /\ InAttempt /\ selectedAnswer = NULL
    /\ currentQuestionIndex = NumQuestions(selectedQuiz) - 1

\* C11: selectedAnswer is empty in the state right after every advance(),
\* whether it moved on, completed the attempt or was a no-op.
C11_SelectionClearedByAdvance ==
    [][handleNextQuestion => selectedAnswer' = NULL]_vars

C11_Witness ==
    /\ InAttempt /\ ~showResults /\ advances = 1 /\ currentQuestionIndex = 1
    /\ selectedAnswer = NULL

\* C12: in every state of an attempt 0 <= timeRemaining <= quiz.timerSeconds,
\* and each tick of an in-progress attempt finds timeRemaining >= 1 and
\* lowers it by exactly 1.
C12_TimeRemainingBounds ==
    /\ [](InAttempt =>
            timeRemaining >= 0 /\ timeRemaining <= TimerSeconds(selectedQuiz))
    /\ [][(\E t \in intervals : tick(t)) =>
            timeRemaining >= 1 /\ timeRemaining' = timeRemaining - 1]_vars

C12_Witness ==
    /\ InAttempt /\ ~showResults /\ TimerSeconds(selectedQuiz) = 3
    /\ timeRemaining = 1

\* C13: in every state of an attempt score <= number of advances made with an
\* answer selected <= number of questions, and no step within an attempt
\* lowers the score.
C13_ScoreBounded ==
    /\ [](InAttempt =>
            /\ score >= 0 /\ score <= advances
            /\ advances <= NumQuestions(selectedQuiz)
            /\ score <= NumQuestions(selectedQuiz))
    /\ [][(InAttempt /\ InAttempt') => score' >= score]_vars

C13_Witness ==
    Completed /\ NumQuestions(selectedQuiz) = 2 /\ score = 2 /\ advances = 2

\* C14: in every state of an attempt 0 <= currentQuestionIndex < number of
\* questions; advance() on the last question leaves the index on it.
C14_IndexInRange ==
    /\ InAttempt =>
          /\ currentQuestionIndex >= 0
          /\ currentQuestionIndex < NumQuestions(selectedQuiz)
    /\ lastOp = "advanceSubmit" =>
          currentQuestionIndex = NumQuestions(selectedQuiz) - 1

C14_Witness ==
    lastOp = "advanceSubmit" /\ NumQuestions(selectedQuiz) = 2
    /\ currentQuestionIndex = 1

\* C15: the timeTaken of every QuizResult handed to the Content Store is
\* quiz.timerSeconds minus timeRemaining at the moment submit() ran, and so
\* lies between 0 and quiz.timerSeconds.
C15_TimeTaken ==
    /\ \A i \in 1..Len(pending) :
          pending[i].timeTaken >= 0
          /\ pending[i].timeTaken <= TimerSeconds(pending[i].quizId)
    /\ \A i \in 1..Len(quizResults) :
          quizResults[i].timeTaken >= 0
          /\ quizResults[i].timeTaken <= TimerSeconds(quizResults[i].quizId)
    /\ (lastOp = "advanceSubmit" /\ user # NULL) =>
          /\ pending # <<>>
          /\ Last(pending).timeTaken = TimerSeconds(selectedQuiz) - timeRemaining

C15_Witness ==
    /\ lastOp = "advanceSubmit" /\ pending # <<>>
    /\ TimerSeconds(selectedQuiz) = 3 /\ timeRemaining = 1
    /\ Last(pending).timeTaken = 2

\* C16: submit() leaves the attempt completed whatever the outcome of the
\* write: a failed write changes no state of the component, is not issued
\* again and stores nothing, and close() remains possible.
C16_WriteFailureIsNonFatal ==
    /\ [](Completed => ENABLED closeQuiz)
    /\ [][addDocRejects =>
            /\ UNCHANGED <<compVars, intervals, quizResults>>
            /\ pending' = Tail(pending)]_vars
    /\ [][((addDocRejects \/ addDocResolves) /\ Completed) => Completed']_vars

\* the write of the current (first) attempt was issued and has failed
C16_Witness ==
    /\ Completed /\ attemptWrites = 1 /\ nextId = 2
    /\ pending = <<>> /\ quizResults = <<>>

\* C17: once the quiz-list subscription has reported a read failure, the quiz
\* list is empty, also when a snapshot had delivered quizzes before.
C17_FailureLeavesListEmpty ==
    (page = "quizzes" /\ quizSub = "failed") => quizzes = {}

\* Blank as the claims use it: nothing, or white space only.
IsBlankText(str) == str \in {"", " "}
FullQuestion == [questionText |-> "Q", options |-> Options, correctAnswer |-> "A"]
C18_MustReject ==
    \/ user = NULL
    \/ IsBlankText(quizTitle)
    \/ quizTimerSeconds <= 0
    \/ \E i \in 1..Len(quizQuestions) :
          \/ IsBlankText(quizQuestions[i].questionText)
          \/ \E o \in 1..4 : IsBlankText(quizQuestions[i].options[o])
          \/ IsBlankText(quizQuestions[i].correctAnswer)
C18_Messages ==
    {"You must be logged in to create quizzes.",
     "Please fill in all quiz fields and ensure timer is positive."}

\* C18: saveQuiz writes nothing to the store and leaves the draft as it is,
\* and shows a message, whenever the title is blank, the timer is not
\* positive, or a question has a blank text, option or answer; and with no
\* subject signed in it takes the branch that writes nothing, whatever the
\* draft.
C18_InvalidSaveRejected ==
    /\ \A title \in Titles : \A timer \in {0, DefaultTimerSeconds} :
         \A q \in {BlankQuestion, FullQuestion} :
            SaveOutcome(NULL, title, timer, <<q>>) \in C18_Messages
    /\ [][(saveQuiz /\ C18_MustReject) =>
            /\ UNCHANGED <<quizTitle, quizTimerSeconds, quizQuestions>>
            /\ UNCHANGED <<savePending, savedQuizzes, nextDoc>>
            /\ message' \in C18_Messages]_vars

\* A save was just rejected for a draft whose only fault is the third option
\* (options[2] of the source) of its question.
C18_Witness ==
    /\ lastOp = "saveRejected"
    /\ message = "Please fill in all quiz fields and ensure timer is positive."
    /\ quizTitle = "Algebra" /\ quizTimerSeconds = DefaultTimerSeconds
    /\ Len(quizQuestions) = 1
    /\ quizQuestions[1].questionText = "Q"
    /\ quizQuestions[1].options[1] = "A" /\ quizQuestions[1].options[2] = "B"
    /\ quizQuestions[1].options[3] = "" /\ quizQuestions[1].options[4] = "D"
    /\ quizQuestions[1].correctAnswer = "A"
    /\ savePending = <<>> /\ savedQuizzes = <<>>

\* C19: every question of every quiz document that saveQuiz hands to the
\* store has a correctAnswer equal to one of its 4 options.
C19_StoredAnswerIsAnOption ==
    \A d \in DOMAIN savedQuizzes :
      \A i \in 1..Len(savedQuizzes[d].questions) :
        \E o \in 1..4 :
          savedQuizzes[d].questions[i].correctAnswer
            = savedQuizzes[d].questions[i].options[o]

\* C20: a save that passes validation hands the store one document holding
\* the draft's title, timer and questions and the signed-in subject's id;
\* when the store accepts it, exactly that document is appended, and the
\* draft is then the initial one.  Nothing else adds quiz documents.
C20_SaveAppendsDraft ==
    /\ [][(saveQuiz /\ ~C18_MustReject) =>
            /\ Len(savePending') = Len(savePending) + 1
            /\ Last(savePending').doc.title = quizTitle
            /\ Last(savePending').doc.timerSeconds = quizTimerSeconds
            /\ Last(savePending').doc.questions = quizQuestions
            /\ Last(savePending').doc.creatorId = userId]_vars
    /\ [][saveResolves =>
            /\ savedQuizzes' = Append(savedQuizzes, Head(savePending).doc)
            /\ Last(savedQuizzes').creatorId = userId
            /\ quizTitle' = "" /\ quizTimerSeconds' = 60
            /\ quizQuestions' = <<[questionText |-> "",
                                   options |-> <<"", "", "", "">>,
                                   correctAnswer |-> ""]>>]_vars
    /\ [][savedQuizzes' # savedQuizzes => saveResolves]_vars

\* The store has just accepted a draft of two questions.
C20_Witness ==
    /\ lastOp = "saveResolved"
    /\ Len(savedQuizzes) = 1
    /\ savedQuizzes[1].title = "Algebra"
    /\ Len(savedQuizzes[1].questions) = 2
    /\ savedQuizzes[1].creatorId = userId
    /\ quizTitle = "" /\ ~showQuizCreationModal

\* C21: whatever questions the author adds and removes, the draft holds at
\* least one question and every draft question has exactly 4 options; a
\* draft of one question is never made shorter.
C21_DraftKeepsAQuestion ==
    /\ Len(quizQuestions) >= 1
    /\ \A i \in 1..Len(quizQuestions) : Len(quizQuestions[i].options) = 4

\* A question has just been removed and one is left.
C21_Witness ==
    /\ lastOp = "removeQuestion"
    /\ showQuizCreationModal
    /\ Len(quizQuestions) = 1

\* C23: the authoring form goes from closed to open only in a state where a
\* subject is signed in and the entered password is exactly the shared
\* secret; a login with any other password leaves the form closed, keeps
\* the password prompt open and sets an error message.
C23_FormOpensOnlyPastGate ==
    /\ [][(~showQuizCreationModal /\ showQuizCreationModal') =>
            (user # NULL /\ adminPassword = "gesannexadmin")]_vars
    /\ [][(handleAdminLogin /\ adminPassword # "gesannexadmin") =>
            /\ ~showQuizCreationModal'
            /\ showAdminPanel'
            /\ adminPasswordError' # ""]_vars

\* A login with a wrong password has been refused.
C23_Witness ==
    /\ user # NULL
    /\ showAdminPanel
    /\ adminPassword = "letmein"
    /\ adminPasswordError = "Incorrect admin password."
    /\ ~showQuizCreationModal

\* C28: a document that a step hands to the store carries the id, the title
\* and the number of questions of the quiz selected in the state the step
\* starts from; as long as it is pending it is not altered, and the store
\* keeps it as it was handed over, whatever quiz is selected by then.
C28_ResultNamesAttemptedQuiz ==
    /\ [][\A i \in (Len(pending) + 1)..Len(pending') :
            /\ selectedQuiz \in QuizIds
            /\ pending'[i].quizId = selectedQuiz
            /\ pending'[i].quizTitle = QuizTitle(selectedQuiz)
            /\ pending'[i].totalQuestions = NumQuestions(selectedQuiz)]_vars
    /\ [][Len(pending') >= Len(pending) =>
            \A i \in 1..Len(pending) : pending'[i] = pending[i]]_vars
    /\ [][Len(pending') < Len(pending) =>
            /\ pending' = Tail(pending)
            /\ quizResults' \in {quizResults, Append(quizResults, Head(pending))}]_vars
    /\ [][quizResults' # quizResults =>
            quizResults' = Append(quizResults, Head(pending))]_vars

\* A result of one quiz is still pending while another quiz is attempted.
C28_Witness ==
    /\ pending # <<>>
    /\ InAttempt
    /\ Head(pending).quizId # selectedQuiz

\* C27: with a countdown that keeps ticking, every attempt in progress
\* sooner or later is completed or closed, whatever answers are selected
\* and whatever questions are advanced in between.
C27_AttemptEnds ==
    (InAttempt /\ ~showResults) ~> (Completed \/ ~InAttempt)

\* The countdown has run out on an attempt in which no question was advanced.
C27_Witness ==
    /\ lastOp = "tickExpire"
    /\ Completed
    /\ timeRemaining = 0
    /\ advances = 0

\* The results table shows rows.
RowsShown == page = "quizzes" /\ ~loadingResults /\ Len(viewerResults) > 0

C24_SubscribedQuizIsOwn ==
    (Viewer.listener = "active" \/ selectedQuizId # NoQuiz) =>
        /\ selectedQuizId \in StoredQuizIds
        /\ CreatorId(selectedQuizId) = userId

\* The subject has changed to one without quizzes; the titles fetched for
\* it are empty and no listener is attached.
C24_Witness ==
    /\ userId = "anon"
    /\ Viewer.titles = "done"
    /\ availableQuizTitles = <<>>
    /\ Viewer.listener = "none"
    /\ selectedQuizId = NoQuiz

\* C25: whenever the results table is not loading, every row it holds has
\* the quizId that is selected.
C25_RowsBelongToSelection ==
    (page = "quizzes" /\ ~loadingResults) =>
        \A i \in 1..Len(viewerResults) : viewerResults[i].quizId = selectedQuizId

\* The position of row r in the sequence rows.
Position(rows, r) == CHOOSE i \in 1..Len(rows) : rows[i] = r

\* C26: the rows shown for a snapshot are the rows of the snapshot, each
\* once, in descending order of score, rows of equal score in the order
\* they have in the snapshot.
C26_SortedStablePermutation ==
    (page = "quizzes" /\ Viewer.listener = "active" /\ ~loadingResults) =>
        /\ Len(viewerResults) = Len(Viewer.snapshot)
        /\ \A i \in 1..Len(Viewer.snapshot) :
              \E j \in 1..Len(viewerResults) : viewerResults[j] = Viewer.snapshot[i]
        /\ \A i, j \in 1..Len(viewerResults) :
              i < j =>
                /\ viewerResults[i].score >= viewerResults[j].score
                /\ viewerResults[i].score = viewerResults[j].score =>
                      Position(Viewer.snapshot, viewerResults[i])
                        < Position(Viewer.snapshot, viewerResults[j])

\* Three rows are shown, two of equal score, in an order other than that
\* of the snapshot.
C26_Witness ==
    /\ RowsShown
    /\ Viewer.listener = "active"
    /\ Len(viewerResults) = 3
    /\ viewerResults # Viewer.snapshot
    /\ \E i, j \in 1..3 : i # j /\ viewerResults[i].score = viewerResults[j].score

C30_IdentityIsOneSubject ==
    /\ user # NULL => userId = user
    /\ \A i \in 1..Len(quizResults) :
          \/ /\ quizResults[i].studentId = "s1"
             /\ quizResults[i].studentEmail = "s1@example.org"
          \/ /\ quizResults[i].studentId = "anon"
             /\ quizResults[i].studentEmail = "anonymous"

====
